---- MODULE Spec2Model ----
(***************************************************************************)
(* Model of the calculator bot (src/calculator.py): the expression         *)
(* extractor MATH_PATTERN, the validator is_valid_math_expression, the     *)
(* evaluator simple_eval as the bot calls it, the result formatting and    *)
(* the message handler calculate_expression with the send gate             *)
(* safe_send_message.                                                      *)
(*                                                                         *)
(* A text is a sequence of characters, each character a one-element        *)
(* string.  The glyphs U+00D7 (multiplication sign) and U+00F7 (division   *)
(* sign) are written "U+00D7" and "U+00F7"; the tab character is "\t".     *)
(***************************************************************************)
EXTENDS Integers, Sequences, FiniteSets, TLC

(***************************************************************************)
(* Characters                                                              *)
(***************************************************************************)
\* 309 consecutive characters "0", written as one element of a text: the
\* shortest way to a number beyond the largest float
ManyZeros == "0{309}"

DigitChars ==
  {"0", "1", "2", "3", "4", "5", "6", "7", "8", "9", ManyZeros}

\* the whitespace characters of the modelled alphabet that \s matches
SpaceChars == {" ", "\t"}

\* the character class [+\-*/U+00D7 U+00F7] of MATH_PATTERN
PatternOps == {"+", "-", "*", "/", "U+00D7", "U+00F7"}

\* the letters of the modelled alphabet
LetterChars == {"a"}

\* \w of the re module: letters, digits and the underscore
WordChars == DigitChars \cup LetterChars \cup {"_"}

IsDigitAt(t, i) == i >= 1 /\ i <= Len(t) /\ t[i] \in DigitChars

IsWordAt(t, i) == i >= 1 /\ i <= Len(t) /\ t[i] \in WordChars

DigitVal(c) ==
  CASE c = "0" -> 0 [] c = "1" -> 1 [] c = "2" -> 2 [] c = "3" -> 3
    [] c = "4" -> 4 [] c = "5" -> 5 [] c = "6" -> 6 [] c = "7" -> 7
    [] c = "8" -> 8 [] c = "9" -> 9

DigitChar(k) ==
  CASE k = 0 -> "0" [] k = 1 -> "1" [] k = 2 -> "2" [] k = 3 -> "3"
    [] k = 4 -> "4" [] k = 5 -> "5" [] k = 6 -> "6" [] k = 7 -> "7"
    [] k = 8 -> "8" [] k = 9 -> "9"

(***************************************************************************)
(* The extractor: MATH_PATTERN.findall(text).                              *)
(*   \b( NUM \s* OP \s* NUM (?: \s* OP \s* NUM )* )\b                      *)
(*   NUM = \d+(?:\.\d+)?                                                   *)
(* Positions are 1-based; an "end" is the position after the last          *)
(* character matched.  \d+ and \s* are taken as maximal runs: what follows *)
(* them in the pattern never matches a digit (a whitespace character), so  *)
(* a shorter run cannot lead to a match.  The optional fraction and the    *)
(* repeated group are tried greedily and given up on backtracking, as the  *)
(* re engine does.                                                         *)
(***************************************************************************)

\* \b at position i: exactly one of the characters around it is a word character
WordBoundary(t, i) == IsWordAt(t, i - 1) # IsWordAt(t, i)

RECURSIVE DigitsEnd(_, _)
\* the end of the maximal run of digits starting at i
DigitsEnd(t, i) == IF IsDigitAt(t, i) THEN DigitsEnd(t, i + 1) ELSE i

RECURSIVE SpaceEnd(_, _)
\* the end of the maximal run of whitespace starting at i
SpaceEnd(t, i) ==
  IF i <= Len(t) /\ t[i] \in SpaceChars THEN SpaceEnd(t, i + 1) ELSE i

\* the ends of \d+(?:\.\d+)? at i, in the order the engine tries them:
\* with the fraction first, then without it
NumberEnds(t, i) ==
  IF ~IsDigitAt(t, i) THEN << >>
  ELSE LET e == DigitsEnd(t, i)
       IN IF e <= Len(t) /\ t[e] = "." /\ IsDigitAt(t, e + 1)
          THEN << DigitsEnd(t, e + 1), e >>
          ELSE << e >>

\* the ends of \s*OP\s*NUM at i, in the order the engine tries them
OpNumberEnds(t, i) ==
  LET j == SpaceEnd(t, i)
  IN IF j <= Len(t) /\ t[j] \in PatternOps
     THEN NumberEnds(t, SpaceEnd(t, j + 1))
     ELSE << >>

RECURSIVE TailMatch(_, _)
RECURSIVE FirstTail(_, _, _)
\* the first of the ends es[k..] from which the rest of the pattern matches
FirstTail(t, es, k) ==
  IF k > Len(es) THEN 0
  ELSE LET r == TailMatch(t, es[k])
       IN IF r # 0 THEN r ELSE FirstTail(t, es, k + 1)

\* the end of (?:\s*OP\s*NUM)*\b matched at i, 0 when it does not match:
\* one more group if the rest then matches, else no group and \b
TailMatch(t, i) ==
  LET viaGroup == FirstTail(t, OpNumberEnds(t, i), 1)
  IN IF viaGroup # 0 THEN viaGroup
     ELSE IF WordBoundary(t, i) THEN i ELSE 0

RECURSIVE FirstOpNumber(_, _, _)
\* the first of the ends es[k..] of the first NUM from which
\* \s*OP\s*NUM(?:...)*\b matches
FirstOpNumber(t, es, k) ==
  IF k > Len(es) THEN 0
  ELSE LET r == FirstTail(t, OpNumberEnds(t, es[k]), 1)
       IN IF r # 0 THEN r ELSE FirstOpNumber(t, es, k + 1)

\* a variant of MatchAt: the pattern takes a sign before the first number
MatchAtSigned(t, s) ==
  IF s <= Len(t) /\ t[s] \in {"+", "-"}
  THEN FirstOpNumber(t, NumberEnds(t, s + 1), 1)
  ELSE IF WordBoundary(t, s) THEN FirstOpNumber(t, NumberEnds(t, s), 1) ELSE 0

\* the end of the match of MATH_PATTERN starting at s, 0 when there is none
MatchAt(t, s) ==
  IF WordBoundary(t, s) THEN FirstOpNumber(t, NumberEnds(t, s), 1) ELSE 0

RECURSIVE FindSpans(_, _)
\* the matches found scanning from s, each << start, end >>: the leftmost
\* match, then on from its end
FindSpans(t, s) ==
  IF s > Len(t) THEN << >>
  ELSE LET e == MatchAt(t, s)
       IN IF e # 0 THEN << << s, e >> >> \o FindSpans(t, e)
          ELSE FindSpans(t, s + 1)

\* MATH_PATTERN.findall(text): the candidates, in order of occurrence
FindAll(t) ==
  LET spans == FindSpans(t, 1)
  IN [k \in 1..Len(spans) |-> SubSeq(t, spans[k][1], spans[k][2] - 1)]

(***************************************************************************)
(* Normalisation: expr.strip().replace(" ", "").replace(U+00D7, "*")       *)
(* .replace(U+00F7, "/")                                                   *)
(***************************************************************************)
RECURSIVE StripLeft(_)
StripLeft(s) ==
  IF Len(s) > 0 /\ s[1] \in SpaceChars THEN StripLeft(Tail(s)) ELSE s

RECURSIVE StripRight(_)
StripRight(s) ==
  IF Len(s) > 0 /\ s[Len(s)] \in SpaceChars
  THEN StripRight(SubSeq(s, 1, Len(s) - 1)) ELSE s

\* str.strip(): leading and trailing whitespace removed
Strip(s) == StripRight(StripLeft(s))

RECURSIVE RemoveChar(_, _)
\* str.replace(c, ""): every occurrence of the one character c removed
RemoveChar(s, c) ==
  IF s = << >> THEN << >>
  ELSE IF s[1] = c THEN RemoveChar(Tail(s), c)
       ELSE << s[1] >> \o RemoveChar(Tail(s), c)

\* str.replace(a, b) for single characters a and b
ReplaceChar(s, a, b) == [i \in 1..Len(s) |-> IF s[i] = a THEN b ELSE s[i]]

\* original = expr.strip().replace(" ", "")
StripSpaces(expr) == RemoveChar(Strip(expr), " ")

\* safe = original.replace(U+00D7, "*").replace(U+00F7, "/")
ReplaceGlyphs(s) == ReplaceChar(ReplaceChar(s, "U+00D7", "*"), "U+00F7", "/")

(***************************************************************************)
(* Numbers.  A number is an exact rational n/d in lowest terms, d > 0,     *)
(* with f telling whether Python holds it as a float (f) or an int.  A     *)
(* float is modelled by the rational it approximates: the model has no     *)
(* binary rounding error.  The floats inf and -inf are 1/0 and -1/0, the   *)
(* float nan is 0/0; they come from float literals beyond the largest      *)
(* float.                                                                  *)
(***************************************************************************)
Abs(a) == IF a < 0 THEN -a ELSE a

RECURSIVE GCD(_, _)
GCD(a, b) == IF b = 0 THEN a ELSE GCD(b, a % b)

\* the number n/d in lowest terms
Rat(n, d, f) ==
  LET g == GCD(Abs(n), Abs(d))
      sgn == IF d < 0 THEN -1 ELSE 1
  IN IF g = 0 THEN [n |-> 0, d |-> 0, f |-> f]
     ELSE [n |-> sgn * (n \div g), d |-> sgn * (d \div g), f |-> f]

\* float inf and nan: a zero denominator, the sign in the numerator
Inf == Rat(1, 0, TRUE)
NaN == Rat(0, 0, TRUE)

RECURSIVE IntPow(_, _)
IntPow(b, e) == IF e = 0 THEN 1 ELSE b * IntPow(b, e - 1)

Ok(v) == [st |-> "ok", v |-> v]

\* an exception: "zerodiv" ZeroDivisionError, "invalid" an InvalidExpression
\* of simpleeval, "error" any other exception (SyntaxError, ...);
\* "unmodelled" marks input outside the grammar modelled here
Raise(st) == [st |-> st, v |-> Rat(0, 1, FALSE)]

\* a number by what float arithmetic with inf and nan asks of it
Classes == {"nan", "+inf", "-inf", "zero", "pos", "neg"}

Class(a) ==
  IF a.d = 0
  THEN (IF a.n = 0 THEN "nan" ELSE IF a.n > 0 THEN "+inf" ELSE "-inf")
  ELSE (IF a.n = 0 THEN "zero" ELSE IF a.n > 0 THEN "pos" ELSE "neg")

\* float + - * / with inf or nan among the operands, by their classes
InfOp(op, ca, cb) ==
  LET inf == {"+inf", "-inf"}
      sa == IF ca \in {"-inf", "neg"} THEN -1 ELSE 1
      sb == IF cb \in {"-inf", "neg"} THEN -1 ELSE 1
  IN CASE op = "/" /\ cb = "zero" -> Raise("zerodiv")
       [] ca = "nan" \/ cb = "nan" -> Ok(NaN)
       [] op = "+" ->
            IF ca \in inf /\ cb \in inf /\ sa # sb THEN Ok(NaN)
            ELSE IF ca \in inf THEN Ok(Rat(sa, 0, TRUE)) ELSE Ok(Rat(sb, 0, TRUE))
       [] op = "-" ->
            IF ca \in inf /\ cb \in inf /\ sa = sb THEN Ok(NaN)
            ELSE IF ca \in inf THEN Ok(Rat(sa, 0, TRUE)) ELSE Ok(Rat(-sb, 0, TRUE))
       [] op = "*" ->
            IF ca = "zero" \/ cb = "zero" THEN Ok(NaN)
            ELSE Ok(Rat(sa * sb, 0, TRUE))
       [] op = "/" ->
            IF ca \in inf /\ cb \in inf THEN Ok(NaN)
            ELSE IF ca \in inf THEN Ok(Rat(sa * sb, 0, TRUE))
                 ELSE Ok(Rat(0, 1, TRUE))
       [] OTHER -> Raise("unmodelled")

InfTable ==
  [op \in {"+", "-", "*", "/", "//", "**"}, ca \in Classes, cb \in Classes |->
     InfOp(op, ca, cb)]

\* a binary operator of simple_eval's DEFAULT_OPERATORS applied to numbers
ApplyOp(op, a, b) ==
  CASE a.d = 0 \/ b.d = 0 -> InfTable[op, Class(a), Class(b)]
    [] op = "+" -> Ok(Rat(a.n * b.d + b.n * a.d, a.d * b.d, a.f \/ b.f))
    [] op = "-" -> Ok(Rat(a.n * b.d - b.n * a.d, a.d * b.d, a.f \/ b.f))
    [] op = "*" -> Ok(Rat(a.n * b.n, a.d * b.d, a.f \/ b.f))
    [] op = "/" -> IF b.n = 0 THEN Raise("zerodiv")
                   ELSE Ok(Rat(a.n * b.d, a.d * b.n, TRUE))
    [] op = "//" -> IF b.n = 0 THEN Raise("zerodiv")
                    ELSE LET q == Rat(a.n * b.d, a.d * b.n, FALSE)
                         IN Ok(Rat(q.n \div q.d, 1, a.f \/ b.f))
    [] op = "**" ->
         IF b.d # 1 THEN Raise("unmodelled")
         ELSE IF b.n >= 0
              THEN Ok(Rat(IntPow(a.n, b.n), IntPow(a.d, b.n), a.f \/ b.f))
              ELSE IF a.n = 0 THEN Raise("zerodiv")
                   ELSE Ok(Rat(IntPow(a.d, -b.n), IntPow(a.n, -b.n), TRUE))

\* operands are evaluated left to right; the first exception propagates
Binary(op, l, r) ==
  IF l.st # "ok" THEN l
  ELSE IF r.st # "ok" THEN r
       ELSE ApplyOp(op, l.v, r.v)

Unary(op, r) ==
  IF r.st # "ok" THEN r
  ELSE IF op = "-" THEN Ok(Rat(-r.v.n, r.v.d, r.v.f)) ELSE r

(***************************************************************************)
(* simple_eval(safe): Python's tokenizer and expression grammar over       *)
(* numbers, names, + - * / // **, unary + and -, parentheses and calls,    *)
(* evaluated with simpleeval's default operators, names and functions.     *)
(***************************************************************************)
\* the value acc of some digits with the digit c after them; -1 for a value
\* of more than 309 digits
WithDigit(acc, c) ==
  IF acc = -1 \/ (c = ManyZeros /\ acc # 0) THEN -1
  ELSE IF c = ManyZeros THEN 0
       ELSE 10 * acc + DigitVal(c)

RECURSIVE DigitsValue(_, _, _, _)
\* the value of the digits s[i..e-1], after acc
DigitsValue(s, i, e, acc) ==
  IF i >= e THEN acc ELSE DigitsValue(s, i + 1, e, WithDigit(acc, s[i]))

RECURSIVE WordEnd(_, _)
WordEnd(s, i) == IF IsWordAt(s, i) THEN WordEnd(s, i + 1) ELSE i

\* the number literal s[i..]: digits, optionally "." and more digits.
\* An int literal with a leading zero is a SyntaxError unless it is all zeros.
\* A float literal beyond the largest float is inf.  An int of more than
\* 309 digits and ManyZeros after the point are not modelled.
NumberToken(s, i) ==
  LET e == DigitsEnd(s, i)
      isFloat == e <= Len(s) /\ s[e] = "."
      e2 == IF isFloat THEN DigitsEnd(s, e + 1) ELSE e
      ip == DigitsValue(s, i, e, 0)
      fp == DigitsValue(s, e + 1, e2, 0)
      scale == IntPow(10, e2 - (e + 1))
  IN IF IsWordAt(s, e2) THEN [k |-> "bad", e |-> WordEnd(s, e2)]
     ELSE IF (\E j \in (e + 1)..(e2 - 1) : s[j] = ManyZeros)
             \/ (ip = -1 /\ ~isFloat)
     THEN [k |-> "unmodelled", e |-> e2]
     ELSE IF ip = -1 THEN [k |-> "num", v |-> Inf, e |-> e2]
     ELSE IF isFloat
          THEN [k |-> "num", v |-> Rat(ip * scale + fp, scale, TRUE), e |-> e2]
          ELSE IF e - i > 1 /\ s[i] = "0" /\ ip # 0
               THEN [k |-> "bad", e |-> e2]
               ELSE [k |-> "num", v |-> Rat(ip, 1, FALSE), e |-> e2]

RECURSIVE Tokens(_, _)
\* the tokens of s from position i on
Tokens(s, i) ==
  IF i > Len(s) THEN << >>
  ELSE LET c == s[i]
       IN CASE c \in SpaceChars -> Tokens(s, i + 1)
            [] c \in DigitChars ->
                 LET t == NumberToken(s, i) IN << t >> \o Tokens(s, t.e)
            [] c \in LetterChars \cup {"_"} ->
                 << [k |-> "name"] >> \o Tokens(s, WordEnd(s, i))
            [] c \in {"*", "/"} ->
                 IF i < Len(s) /\ s[i + 1] = c
                 THEN << [k |-> IF c = "*" THEN "**" ELSE "//"] >> \o Tokens(s, i + 2)
                 ELSE << [k |-> c] >> \o Tokens(s, i + 1)
            [] c \in {"+", "-", "(", ")"} -> << [k |-> c] >> \o Tokens(s, i + 1)
            [] OTHER -> << [k |-> "unmodelled"] >> \o Tokens(s, i + 1)

\* a parse: ok (no syntax error so far), p the next token, r the value or
\* the exception that evaluating the part parsed raises
Parsed(p, r) == [ok |-> TRUE, p |-> p, r |-> r]
NoParse == [ok |-> FALSE, p |-> 0, r |-> Raise("error")]

IsTok(ts, p, ks) == p <= Len(ts) /\ ts[p].k \in ks

RECURSIVE BareName(_, _, _)
\* the tokens ts[i..j] are a name, possibly in parentheses: an ast.Name
BareName(ts, i, j) ==
  IF i >= j THEN i = j /\ ts[i].k = "name"
  ELSE ts[i].k = "(" /\ ts[j].k = ")" /\ BareName(ts, i + 1, j - 1)

RECURSIVE Parse(_, _, _, _, _)
\* the parse of the nonterminal nt from token p on.  acc is the value of
\* what was parsed before ("sumrest", "termrest", "trailers"), isName tells
\* whether that was a bare name ("trailers").
\*   sum:      term (('+' | '-') term)*
\*   term:     factor (('*' | '/' | '//') factor)*
\*   factor:   ('+' | '-') factor | power
\*   power:    primary ['**' factor]
\*   primary:  atom trailers
\*   trailers: ('(' [['*' | '**'] sum] ')')*
\*   atom:     NUMBER | NAME | '(' [sum] ')'
\* A call: simpleeval looks the callee up by name before it evaluates
\* anything; no name of the modelled alphabet is one of its default
\* functions (FunctionNotDefined), and a callee that is not a name has no
\* name to look up (AttributeError).  A name: none of the modelled alphabet
\* is one of simpleeval's default names (NameNotDefined).  "()" is the
\* empty tuple (FeatureNotAvailable).
Parse(nt, ts, p, acc, isName) ==
  CASE nt = "sum" ->
         LET l == Parse("term", ts, p, acc, FALSE)
         IN IF l.ok THEN Parse("sumrest", ts, l.p, l.r, FALSE) ELSE l
    [] nt = "sumrest" ->
         IF IsTok(ts, p, {"+", "-"})
         THEN LET r == Parse("term", ts, p + 1, acc, FALSE)
              IN IF r.ok
                 THEN Parse("sumrest", ts, r.p, Binary(ts[p].k, acc, r.r), FALSE)
                 ELSE r
         ELSE Parsed(p, acc)
    [] nt = "term" ->
         LET l == Parse("factor", ts, p, acc, FALSE)
         IN IF l.ok THEN Parse("termrest", ts, l.p, l.r, FALSE) ELSE l
    [] nt = "termrest" ->
         IF IsTok(ts, p, {"*", "/", "//"})
         THEN LET r == Parse("factor", ts, p + 1, acc, FALSE)
              IN IF r.ok
                 THEN Parse("termrest", ts, r.p, Binary(ts[p].k, acc, r.r), FALSE)
                 ELSE r
         ELSE Parsed(p, acc)
    [] nt = "factor" ->
         IF IsTok(ts, p, {"+", "-"})
         THEN LET r == Parse("factor", ts, p + 1, acc, FALSE)
              IN IF r.ok THEN Parsed(r.p, Unary(ts[p].k, r.r)) ELSE r
         ELSE Parse("power", ts, p, acc, FALSE)
    [] nt = "power" ->
         LET b == Parse("primary", ts, p, acc, FALSE)
         IN IF b.ok /\ IsTok(ts, b.p, {"**"})
            THEN LET e == Parse("factor", ts, b.p + 1, acc, FALSE)
                 IN IF e.ok THEN Parsed(e.p, Binary("**", b.r, e.r)) ELSE e
            ELSE b
    [] nt = "primary" ->
         LET a == Parse("atom", ts, p, acc, FALSE)
         IN IF a.ok
            THEN Parse("trailers", ts, a.p, a.r, BareName(ts, p, a.p - 1))
            ELSE a
    [] nt = "trailers" ->
         IF IsTok(ts, p, {"("})
         THEN LET called == IF isName THEN Raise("invalid") ELSE Raise("error")
                  a == IF IsTok(ts, p + 1, {"*", "**"}) THEN p + 2 ELSE p + 1
              IN IF IsTok(ts, p + 1, {")"})
                 THEN Parse("trailers", ts, p + 2, called, FALSE)
                 ELSE LET arg == Parse("sum", ts, a, acc, FALSE)
                      IN IF arg.ok /\ IsTok(ts, arg.p, {")"})
                         THEN Parse("trailers", ts, arg.p + 1, called, FALSE)
                         ELSE NoParse
         ELSE Parsed(p, acc)
    [] nt = "atom" ->
         IF p > Len(ts) THEN NoParse
         ELSE CASE ts[p].k = "num" -> Parsed(p + 1, Ok(ts[p].v))
                [] ts[p].k = "name" -> Parsed(p + 1, Raise("invalid"))
                [] ts[p].k = "(" ->
                     IF IsTok(ts, p + 1, {")"})
                     THEN Parsed(p + 2, Raise("invalid"))
                     ELSE LET inner == Parse("sum", ts, p + 1, acc, FALSE)
                          IN IF inner.ok /\ IsTok(ts, inner.p, {")"})
                             THEN Parsed(inner.p + 1, inner.r)
                             ELSE NoParse
                [] OTHER -> NoParse

\* the value of the expression of tokens ts, or the exception raised.  A
\* syntax error anywhere comes before any evaluation.  A starred expression
\* ("*1") parses and is refused by simpleeval (FeatureNotAvailable); the
\* empty string is refused as an InvalidExpression.
Eval(ts) ==
  LET starred == IsTok(ts, 1, {"*"})
      res == Parse("sum", ts, IF starred THEN 2 ELSE 1, Raise("error"), FALSE)
  IN IF \E i \in 1..Len(ts) : ts[i].k = "unmodelled" THEN Raise("unmodelled")
     ELSE IF ts = << >> THEN Raise("invalid")
     ELSE IF \E i \in 1..Len(ts) : ts[i].k = "bad" THEN Raise("error")
     ELSE IF ~res.ok \/ res.p # Len(ts) + 1 THEN Raise("error")
     ELSE IF starred THEN Raise("invalid")
     ELSE res.r

\* simple_eval(s): the tokens of s.strip(), parsed and evaluated
simple_eval(s) == Eval(Tokens(Strip(s), 1))

(***************************************************************************)
(* The validator                                                           *)
(***************************************************************************)
\* the operators is_valid_math_expression looks for
ValidatorOps == {"+", "-", "*", "/", "U+00D7", "U+00F7"}

\* a variant of is_valid_math_expression: a leading sign is refused like a
\* leading * or /
is_valid_unsigned_expression(expr) ==
  LET clean_expr == ReplaceGlyphs(StripSpaces(expr))
      has_operator == \E i \in 1..Len(clean_expr) : clean_expr[i] \in ValidatorOps
  IN IF clean_expr # << >> /\ clean_expr[Len(clean_expr)] \in ValidatorOps
     THEN FALSE
     ELSE IF clean_expr # << >> /\ clean_expr[1] \in ValidatorOps
          THEN FALSE
          ELSE IF ~has_operator THEN FALSE
               ELSE simple_eval(clean_expr).st = "ok"

\* is_valid_math_expression(expr); any exception of the trial evaluation
\* is caught and gives False
is_valid_math_expression(expr) ==
  LET clean_expr == ReplaceGlyphs(StripSpaces(expr))
      has_operator == \E i \in 1..Len(clean_expr) : clean_expr[i] \in ValidatorOps
      safe_expr == ReplaceGlyphs(clean_expr)
  IN IF clean_expr # << >> /\ clean_expr[Len(clean_expr)] \in ValidatorOps
     THEN FALSE
     ELSE IF clean_expr # << >>
             /\ clean_expr[1] \in {"*", "/", "U+00D7", "U+00F7"}
          THEN FALSE
          ELSE IF ~has_operator THEN FALSE
               ELSE simple_eval(safe_expr).st = "ok"

(***************************************************************************)
(* Result formatting (calculate_expression, the float branch) and str().   *)
(* A decimal is sign, integer part ip and fraction fr in units of          *)
(* 10^-digs.  round() of a float goes to the nearest decimal; on an exact  *)
(* tie Python rounds half to even when the float holds the tie exactly     *)
(* (the denominator is a power of two), and otherwise the direction        *)
(* depends on the binary representation, which the model leaves open:      *)
(* the caller passes the direction (up8, up6) and every use quantifies     *)
(* over both.                                                              *)
(***************************************************************************)
\* number of decimal places of round(result, 8)
Places8 == 8

\* number of decimal places of round(rounded, 6)
Places6 == 6

\* the threshold 1e-10, in units of 1e-10
EpsE10 == 1

RECURSIVE IsPowerOfTwo(_)
IsPowerOfTwo(d) == d = 1 \/ (d % 2 = 0 /\ IsPowerOfTwo(d \div 2))

\* the next decimal digit of r/d (0 <= r < d) and the remainder after it,
\* computed without forming 10 * r
DivStep(r, d) ==
  LET dq == d \div 10
      dr == d % 10
      Fits(k) == k * dq + ((k * dr + 9) \div 10) <= r
      k == CHOOSE j \in 0..9 : Fits(j) /\ (j = 9 \/ ~Fits(j + 1))
  IN [q |-> k, r |-> 10 * (r - k * dq) - k * dr]

RECURSIVE LongDiv(_, _, _, _)
\* k more digits of r/d after the digits q
LongDiv(r, d, k, q) ==
  IF k = 0 THEN [q |-> q, r |-> r]
  ELSE LET s == DivStep(r, d) IN LongDiv(s.r, d, k - 1, 10 * q + s.q)

Dec(neg, ip, fr, digs) == [neg |-> neg, ip |-> ip, fr |-> fr, digs |-> digs]

\* a decimal after its last place was rounded up
Carry(neg, ip, fr, digs) ==
  IF fr + 1 = IntPow(10, digs) THEN Dec(neg, ip + 1, 0, digs)
  ELSE Dec(neg, ip, fr + 1, digs)

\* round(result, 8) of the float v
Round8(v, up8) ==
  LET a == Abs(v.n)
      ld == LongDiv(a % v.d, v.d, Places8, 0)
      tie == ld.r = v.d - ld.r
      up == IF tie THEN (IF IsPowerOfTwo(v.d) THEN ld.q % 2 = 1 ELSE up8)
            ELSE ld.r > v.d - ld.r
  IN IF up THEN Carry(v.n < 0, a \div v.d, ld.q, Places8)
     ELSE Dec(v.n < 0, a \div v.d, ld.q, Places8)

\* round(rounded): the nearest integer, half to even
NearestInt(x) ==
  LET half == 5 * IntPow(10, x.digs - 1)
  IN IF x.fr > half \/ (x.fr = half /\ x.ip % 2 = 1) THEN x.ip + 1 ELSE x.ip

\* abs(rounded - round(rounded)) < 1e-10, the difference taken in units of
\* 10^-8: diff * 100 < EpsE10
NearInteger(x) ==
  LET diff == IF NearestInt(x) = x.ip THEN x.fr ELSE IntPow(10, x.digs) - x.fr
  IN diff < (EpsE10 + 99) \div 100

\* the float m / 10^8 holds its decimal exactly
ExactDecimal(x) ==
  x.fr % IntPow(5, x.digs) = 0

\* round(rounded, 6)
Round6(x, up6) ==
  LET cut == IntPow(10, x.digs - Places6)
      q == x.fr \div cut
      rem == x.fr % cut
      tie == 2 * rem = cut
      up == IF tie THEN (IF ExactDecimal(x) THEN q % 2 = 1 ELSE up6)
            ELSE 2 * rem > cut
  IN IF up THEN Carry(x.neg, x.ip, q, Places6) ELSE Dec(x.neg, x.ip, q, Places6)

\* a result as replied: an int (isInt, value n) or a float (the decimal x)
IntResult(n) == [isInt |-> TRUE, n |-> n, x |-> Dec(FALSE, 0, 0, Places6)]
FloatResult(x) == [isInt |-> FALSE, n |-> 0, x |-> x]

\* the float branch raises: round(rounded) of inf is an OverflowError, of
\* nan a ValueError
FormatRaises(v) == v.f /\ v.d = 0

\* the float branch of calculate_expression, for a result it formats
FormatResult(v, up8, up6) ==
  IF ~v.f THEN IntResult(v.n)
  ELSE IF v.n % v.d = 0 THEN IntResult(v.n \div v.d)
       ELSE LET rounded == Round8(v, up8)
            IN IF NearInteger(rounded)
               THEN IntResult(IF rounded.neg THEN -NearestInt(rounded)
                              ELSE NearestInt(rounded))
               ELSE FloatResult(Round6(rounded, up6))

RECURSIVE NatStr(_)
\* str() of a natural number
NatStr(n) ==
  IF n < 10 THEN << DigitChar(n) >>
  ELSE NatStr(n \div 10) \o << DigitChar(n % 10) >>

RECURSIVE PadLeft(_, _)
\* s with zeros before it up to k characters
PadLeft(s, k) == IF Len(s) >= k THEN s ELSE PadLeft(<< "0" >> \o s, k)

RECURSIVE StripZeros(_)
\* s without its trailing zeros
StripZeros(s) ==
  IF Len(s) > 0 /\ s[Len(s)] = "0" THEN StripZeros(SubSeq(s, 1, Len(s) - 1))
  ELSE s

Sign(neg) == IF neg THEN << "-" >> ELSE << >>

\* repr() of the float x = ip + fr / 10^6: the shortest digits; a value
\* under 1e-4 in scientific notation
FloatStr(x) ==
  LET digits == StripZeros(PadLeft(NatStr(x.fr), x.digs))
      sig == StripZeros(NatStr(x.fr))
      exp == x.digs - Len(NatStr(x.fr)) + 1
  IN IF x.ip = 0 /\ x.fr # 0 /\ Len(NatStr(x.fr)) <= x.digs - 4
     THEN Sign(x.neg) \o << sig[1] >>
          \o (IF Len(sig) > 1 THEN << "." >> \o Tail(sig) ELSE << >>)
          \o << "e", "-" >> \o PadLeft(NatStr(exp), 2)
     ELSE Sign(x.neg) \o NatStr(x.ip) \o << "." >>
          \o (IF digits = << >> THEN << "0" >> ELSE digits)

\* f"{result}"
ResultStr(res) ==
  IF res.isInt THEN Sign(res.n < 0) \o NatStr(Abs(res.n)) ELSE FloatStr(res.x)

(***************************************************************************)
(* The message handler calculate_expression and the send gate              *)
(* safe_send_message.  One handler runs per message; handlers interleave   *)
(* at their awaits.  The reply_to argument of the sends is not modelled,   *)
(* so is_private and is_reply_to_bot are read by the reminder test alone   *)
(* and a handler with valid expressions keeps neither.                     *)
(***************************************************************************)
\* asyncio.Semaphore(20)
Permits == 20

\* how many messages are handled, each by its own handler record
MaxMsgs == 2

Msgs == 1..MaxMsgs

\* the message texts the handlers receive
Texts ==
  { << "5", "/", "0" >>,
    << "4", "+", "4", " ", "1", "0", "U+00D7", "2" >>,
    << "5", "/", "0", " ", "4", "+", "4", " ", "4", "+", "4" >>,
    << "2", "\t", "+", " ", "2" >>,
    << "1", ManyZeros, ".", "0", "+", "1", " ", "4", "+", "4" >> }

VARIABLES
  h,        \* h[m]: the handler of message m
  permits,  \* the free permits of the semaphore
  gate,     \* the handlers counted by where they are (SpecGate)
  fn        \* a function of the pipeline applied to one input (SpecExtract,
            \* SpecValid, SpecFormat)

vars == << h, permits, gate, fn >>

\* MESSAGES['calculator_reminder'], whatever the user's name
ReminderText == << "calculator_reminder" >>

\* MESSAGES['division_error'].format(expression=original)
DivisionError(original) ==
  << "U+274C", " ", "Error: Division by zero in '" >> \o original \o << "'" >>

\* reply = f"{original} = {result}"
Reply(original, result) == original \o << " ", "=", " " >> \o ResultStr(result)

RECURSIVE ValidMatchesBackwards(_)
\* a variant of ValidMatches: the accepted candidates, last first
ValidMatchesBackwards(matches) ==
  IF matches = << >> THEN << >>
  ELSE ValidMatchesBackwards(Tail(matches))
       \o (IF is_valid_math_expression(matches[1]) THEN << matches[1] >>
           ELSE << >>)

RECURSIVE ValidMatches(_)
\* the candidates that is_valid_math_expression accepts, in order
ValidMatches(matches) ==
  IF matches = << >> THEN << >>
  ELSE (IF is_valid_math_expression(matches[1]) THEN << matches[1] >>
        ELSE << >>) \o ValidMatches(Tail(matches))

\* a variant of ShouldRemind: the reminder in private chats only
ShouldRemindInPrivate(is_private, is_reply_to_bot) == is_private

\* if is_private or is_reply_to_bot
ShouldRemind(is_private, is_reply_to_bot) == is_private \/ is_reply_to_bot

Idle ==
  [pc |-> "idle", text |-> << >>, is_private |-> FALSE,
   is_reply_to_bot |-> FALSE, valid_matches |-> << >>, i |-> 0,
   sent |-> << >>, typing |-> 0, typing_failed |-> FALSE]

\* a send the handler has started: a "calc", "div" or "reminder" message
\* for the candidate expr, st "pending" until the send returns
Send(kind, expr, text) ==
  [kind |-> kind, expr |-> expr, text |-> text, st |-> "pending"]

\* the handler after the send it waited for returned (ok) or raised
Returned(hm, ok) ==
  [hm EXCEPT !.sent[Len(hm.sent)].st = IF ok THEN "ok" ELSE "failed"]

\* for expr in valid_matches: on to the next expression, or the end
Advance(hm) ==
  IF hm.i < Len(hm.valid_matches)
  THEN [hm EXCEPT !.i = hm.i + 1, !.pc = "eval"]
  ELSE [hm EXCEPT !.pc = "done"]

\* a variant of Started: valid_matches is one list shared by the handlers
\* and never cleared, so a handler starts with what the last one left
StartedWithSharedMatches(text, is_private, is_reply_to_bot) ==
  LET started == { m \in Msgs : h[m].pc # "idle" }
      last == CHOOSE m \in started : \A n \in started : n <= m
      shared == IF started = { } THEN << >> ELSE h[last].valid_matches
      valid_matches == shared \o ValidMatches(FindAll(text))
      hm == [Idle EXCEPT !.text = text, !.valid_matches = valid_matches]
      tested == [hm EXCEPT !.is_private = is_private,
                           !.is_reply_to_bot = is_reply_to_bot]
  IN IF valid_matches = << >>
     THEN IF ShouldRemind(is_private, is_reply_to_bot)
          THEN [tested EXCEPT !.pc = "rem_typing", !.typing = 1]
          ELSE [tested EXCEPT !.pc = "done"]
     ELSE [hm EXCEPT !.pc = "eval", !.i = 1]

\* the handler up to its first await: the candidates are extracted and
\* validated; with none valid, the reminder path or nothing
Started(text, is_private, is_reply_to_bot) ==
  LET matches == FindAll(text)
      valid_matches == ValidMatches(matches)
      hm == [Idle EXCEPT !.text = text, !.valid_matches = valid_matches]
      tested == [hm EXCEPT !.is_private = is_private,
                           !.is_reply_to_bot = is_reply_to_bot]
  IN IF valid_matches = << >>
     THEN IF ShouldRemind(is_private, is_reply_to_bot)
          THEN [tested EXCEPT !.pc = "rem_typing", !.typing = 1]
          ELSE [tested EXCEPT !.pc = "done"]
     ELSE [hm EXCEPT !.pc = "eval", !.i = 1]

\* the handler with r, what simple_eval returned or raised for expr: the
\* result formatted and the reply handed to safe_send_message, the
\* division error handed to safe_send_message, or the exception logged
\* (an exception of the formatting included)
Outcome(hm, expr, original, r, up8, up6) ==
  CASE r.st = "ok" /\ ~FormatRaises(r.v) ->
         [hm EXCEPT !.pc = "acquire",
            !.sent = Append(@, Send("calc", expr,
                       Reply(original, FormatResult(r.v, up8, up6))))]
    [] r.st = "zerodiv" ->
         [hm EXCEPT !.pc = "acquire",
            !.sent = Append(@, Send("div", expr, DivisionError(original)))]
    [] OTHER -> Advance(hm)

\* the handler after run_in_executor(simple_eval, safe) returned or raised
\* for expression i
Evaluated(hm, up8, up6) ==
  LET expr == hm.valid_matches[hm.i]
      original == StripSpaces(expr)
      safe == ReplaceGlyphs(original)
  IN Outcome(hm, expr, original, simple_eval(safe), up8, up6)

\* a variant of AfterSend: a send that raised ends the loop
AfterSendAbort(hm, ok) ==
  IF ok THEN Advance([Returned(hm, ok) EXCEPT !.typing_failed = FALSE])
  ELSE [Returned(hm, ok) EXCEPT !.typing_failed = FALSE, !.pc = "done"]

\* the handler after send_message returned or raised inside
\* safe_send_message: the loop goes on either way
AfterSend(hm, ok) ==
  Advance([Returned(hm, ok) EXCEPT !.typing_failed = FALSE])

\* a message arrives and its handler runs to its first await
Receive(m, text, is_private, is_reply_to_bot) ==
  /\ h[m].pc = "idle"
  /\ IF m = 1 THEN TRUE ELSE h[m - 1].pc # "idle"
  /\ h' = [h EXCEPT ![m] = Started(text, is_private, is_reply_to_bot)]
  /\ UNCHANGED << permits, gate, fn >>

\* the typing indicator before the reminder returned or raised; the
\* reminder is sent either way, not through the semaphore
ReminderTypingDone(m, ok) ==
  /\ h[m].pc = "rem_typing"
  /\ h' = [h EXCEPT ![m] = [@ EXCEPT !.pc = "rem_reply",
             !.typing_failed = ~ok,
             !.sent = Append(@, Send("reminder", << >>, ReminderText))]]
  /\ UNCHANGED << permits, gate, fn >>

\* reply_text of the reminder returned or raised
ReminderReplyDone(m, ok) ==
  /\ h[m].pc = "rem_reply"
  /\ h' = [h EXCEPT ![m] = [Returned(@, ok) EXCEPT !.pc = "done",
                                                   !.typing_failed = FALSE]]
  /\ UNCHANGED << permits, gate, fn >>

\* run_in_executor returned or raised
EvalDone(m, up8, up6) ==
  /\ h[m].pc = "eval"
  /\ h' = [h EXCEPT ![m] = Evaluated(@, up8, up6)]
  /\ UNCHANGED << permits, gate, fn >>

\* async with semaphore: a permit is taken, the typing indicator goes out
Acquire(m) ==
  /\ h[m].pc = "acquire"
  /\ permits > 0
  /\ permits' = permits - 1
  /\ h' = [h EXCEPT ![m] = [@ EXCEPT !.pc = "typing", !.typing = @ + 1]]
  /\ UNCHANGED << gate, fn >>

\* send_chat_action returned or raised; send_message goes out either way
TypingDone(m, ok) ==
  /\ h[m].pc = "typing"
  /\ h' = [h EXCEPT ![m] = [@ EXCEPT !.pc = "sending", !.typing_failed = ~ok]]
  /\ UNCHANGED << permits, gate, fn >>

\* a variant of SendDone: a send_message that raised leaves the block
\* without releasing the permit
SendDoneHoldingOnFailure(m, ok) ==
  /\ h[m].pc = "sending"
  /\ permits' = IF ok THEN permits + 1 ELSE permits
  /\ h' = [h EXCEPT ![m] = AfterSend(@, ok)]
  /\ UNCHANGED << gate, fn >>

\* send_message returned (the message) or raised (None): the permit is
\* released and the loop goes on
SendDone(m, ok) ==
  /\ h[m].pc = "sending"
  /\ permits' = permits + 1
  /\ h' = [h EXCEPT ![m] = AfterSend(@, ok)]
  /\ UNCHANGED << gate, fn >>

NoGate ==
  [started |-> 0, evaluating |-> 0, waiting |-> 0, typing |-> 0,
   sending |-> 0, rem_typing |-> 0, rem_reply |-> 0]

NoFn == [arg |-> << >>, out |-> << >>, done |-> TRUE]

Init ==
  /\ h = [m \in Msgs |-> Idle]
  /\ permits = Permits
  /\ gate = NoGate
  /\ fn = NoFn

Next ==
  \E m \in Msgs :
    \/ \E text \in Texts, is_private \in BOOLEAN, is_reply_to_bot \in BOOLEAN :
         Receive(m, text, is_private, is_reply_to_bot)
    \/ \E ok \in BOOLEAN : ReminderTypingDone(m, ok)
    \/ \E ok \in BOOLEAN : ReminderReplyDone(m, ok)
    \/ \E up8 \in BOOLEAN, up6 \in BOOLEAN : EvalDone(m, up8, up6)
    \/ Acquire(m)
    \/ \E ok \in BOOLEAN : TypingDone(m, ok)
    \/ \E ok \in BOOLEAN : SendDone(m, ok)

Spec == Init /\ [][Next]_vars

(***************************************************************************)
(* The send gate under load: the handlers counted by where they are, so    *)
(* that more handlers than permits fit in the model.  A handler's text is  *)
(* kept only as far as the gate sees it: whether it has a valid            *)
(* expression, and after each send whether another one follows.            *)
(***************************************************************************)
\* how many messages arrive
MaxHandlers == 21

\* the sends and typing indicators in flight
InFlight ==
  gate.typing + gate.sending + gate.rem_typing + gate.rem_reply

\* a message arrives: no valid expression and the reminder flag set, no
\* valid expression and nothing to do, or at least one valid expression
GateReceive(has_valid, is_private, is_reply_to_bot) ==
  /\ gate.started < MaxHandlers
  /\ gate' =
       IF has_valid
       THEN [gate EXCEPT !.started = @ + 1, !.evaluating = @ + 1]
       ELSE IF ShouldRemind(is_private, is_reply_to_bot)
            THEN [gate EXCEPT !.started = @ + 1, !.rem_typing = @ + 1]
            ELSE [gate EXCEPT !.started = @ + 1]
  /\ UNCHANGED << h, permits, fn >>

\* send_chat_action before the reminder returned or raised
GateReminderTypingDone ==
  /\ gate.rem_typing > 0
  /\ gate' = [gate EXCEPT !.rem_typing = @ - 1, !.rem_reply = @ + 1]
  /\ UNCHANGED << h, permits, fn >>

\* reply_text of the reminder returned or raised
GateReminderReplyDone ==
  /\ gate.rem_reply > 0
  /\ gate' = [gate EXCEPT !.rem_reply = @ - 1]
  /\ UNCHANGED << h, permits, fn >>

\* run_in_executor returned: safe_send_message is called
GateEvalDone ==
  /\ gate.evaluating > 0
  /\ gate' = [gate EXCEPT !.evaluating = @ - 1, !.waiting = @ + 1]
  /\ UNCHANGED << h, permits, fn >>

\* async with semaphore
GateAcquire ==
  /\ gate.waiting > 0
  /\ permits > 0
  /\ permits' = permits - 1
  /\ gate' = [gate EXCEPT !.waiting = @ - 1, !.typing = @ + 1]
  /\ UNCHANGED << h, fn >>

\* send_chat_action returned or raised
GateTypingDone ==
  /\ gate.typing > 0
  /\ gate' = [gate EXCEPT !.typing = @ - 1, !.sending = @ + 1]
  /\ UNCHANGED << h, permits, fn >>

\* send_message returned or raised: the permit is released; the handler
\* goes on to its next expression (more) or ends
GateSendDone(more) ==
  /\ gate.sending > 0
  /\ permits' = permits + 1
  /\ gate' = IF more
             THEN [gate EXCEPT !.sending = @ - 1, !.evaluating = @ + 1]
             ELSE [gate EXCEPT !.sending = @ - 1]
  /\ UNCHANGED << h, fn >>

NextGate ==
  \/ \E has_valid \in BOOLEAN, is_private \in BOOLEAN,
        is_reply_to_bot \in BOOLEAN :
       GateReceive(has_valid, is_private, is_reply_to_bot)
  \/ GateReminderTypingDone
  \/ GateReminderReplyDone
  \/ GateEvalDone
  \/ GateAcquire
  \/ GateTypingDone
  \/ \E more \in BOOLEAN : GateSendDone(more)

SpecGate == Init /\ [][NextGate]_vars

(***************************************************************************)
(* The functions of the pipeline, each applied to one input drawn from a   *)
(* bounded set.                                                            *)
(***************************************************************************)
RECURSIVE SeqsUpTo(_, _)
\* the sequences over S of length at most n
SeqsUpTo(S, n) ==
  IF n = 0 THEN { << >> }
  ELSE LET R == SeqsUpTo(S, n - 1)
       IN R \cup { Append(r, c) : r \in { q \in R : Len(q) = n - 1 }, c \in S }

\* the longest text given to the extractor
MaxTextLen == 6

ExtractAlphabet == {"1", ".", "+", "-", " ", "a"}

InitExtract ==
  /\ h = [m \in Msgs |-> Idle]
  /\ permits = Permits
  /\ gate = NoGate
  /\ fn \in { [arg |-> t, out |-> << >>, done |-> FALSE] :
                t \in SeqsUpTo(ExtractAlphabet, MaxTextLen) }

\* matches = MATH_PATTERN.findall(text), each match with its place
Extract ==
  /\ ~fn.done
  /\ fn' = [fn EXCEPT !.out = FindSpans(fn.arg, 1), !.done = TRUE]
  /\ UNCHANGED << h, permits, gate >>

SpecExtract == InitExtract /\ [][Extract]_vars

\* the longest string given to the validator
MaxExprLen == 4

ValidAlphabet ==
  {"0", "1", "+", "-", "*", "/", "(", ")", "a", " ", "U+00D7"}

InitValid ==
  /\ h = [m \in Msgs |-> Idle]
  /\ permits = Permits
  /\ gate = NoGate
  /\ fn \in { [arg |-> t, out |-> FALSE, done |-> FALSE] :
                t \in SeqsUpTo(ValidAlphabet, MaxExprLen) }

\* is_valid_math_expression(match)
Validate ==
  /\ ~fn.done
  /\ fn' = [fn EXCEPT !.out = is_valid_math_expression(fn.arg), !.done = TRUE]
  /\ UNCHANGED << h, permits, gate >>

SpecValid == InitValid /\ [][Validate]_vars

\* the results formatted: w + n/d and its negative, |w| and |n| bounded
MaxWhole == 2
MaxNum == 3

Denominators ==
  {1, 2, 3, 4, 7, 8, 512, 1000, 200000, 2500000, 10000000, 300000000}

FormatInputs ==
  { Rat(w * d + n, d, TRUE) :
      w \in -MaxWhole..MaxWhole, n \in -MaxNum..MaxNum, d \in Denominators }
  \cup { Rat(n, 1, FALSE) : n \in -MaxNum..MaxNum }

InitFormat ==
  /\ h = [m \in Msgs |-> Idle]
  /\ permits = Permits
  /\ gate = NoGate
  /\ fn \in { [arg |-> v, out |-> IntResult(0), done |-> FALSE] :
                v \in FormatInputs }

\* the result of an evaluation formatted for the reply
Format(up8, up6) ==
  /\ ~fn.done
  /\ fn' = [fn EXCEPT !.out = FormatResult(fn.arg, up8, up6), !.done = TRUE]
  /\ UNCHANGED << h, permits, gate >>

NextFormat == \E up8 \in BOOLEAN, up6 \in BOOLEAN : Format(up8, up6)

SpecFormat == InitFormat /\ [][NextFormat]_vars
(***************************************************************************)
(* Properties                                                              *)
(***************************************************************************)
\* what simple_eval makes of the candidate c as the handler passes it on
EvalOf(c) == simple_eval(ReplaceGlyphs(StripSpaces(c)))

\* the texts a handler may hold: none yet, or a message's
HandlerTexts == Texts \cup { << >> }

\* the candidates of each text, in order of occurrence
Candidates == [t \in HandlerTexts |-> FindAll(t)]

\* simple_eval returns a number for the candidate c and the formatting
\* step returns a result for it
Completes(c) == EvalOf(c).st = "ok" /\ ~FormatRaises(EvalOf(c).v)

\* of each text's candidates, those that pass the validator and evaluate
\* to a result
Evaluable ==
  [t \in HandlerTexts |->
     [k \in DOMAIN Candidates[t] |->
        is_valid_math_expression(Candidates[t][k]) /\ Completes(Candidates[t][k])]]

\* of each text's candidates, those whose evaluation divides by zero
DividesByZero ==
  [t \in HandlerTexts |->
     [k \in DOMAIN Candidates[t] |-> EvalOf(Candidates[t][k]).st = "zerodiv"]]

\* the validated expressions of each text, in order of occurrence
Validated ==
  [t \in HandlerTexts |-> SelectSeq(Candidates[t], is_valid_math_expression)]

\* of the validated expressions of each text, those that evaluate to a
\* result, in order of occurrence
Answered == [t \in HandlerTexts |-> SelectSeq(Validated[t], Completes)]

\* the replies "<original> = <result>" these expressions may get, the
\* original made by strip(expression)
Replies(strip(_)) ==
  [t \in HandlerTexts |->
     [k \in DOMAIN Answered[t] |->
        { Reply(strip(Answered[t][k]),
                FormatResult(EvalOf(Answered[t][k]).v, up8, up6)) :
            up8 \in BOOLEAN, up6 \in BOOLEAN }]]

\* the sends of kind k among the sends s
OfKind(s, k) == SelectSeq(s, LAMBDA e : e.kind = k)

\* is_private or is_reply_to_bot, as the handler hm was given them
Flag(hm) == hm.is_private \/ hm.is_reply_to_bot

\* C1: every message with a candidate whose evaluation divides by zero
\* gets, by the end of its handling, the division-by-zero error reply
\* naming that candidate.
DivisionByZeroReported ==
  \A m \in Msgs :
    h[m].pc = "done" =>
      LET c == Candidates[h[m].text]
      IN \A k \in DOMAIN c :
           DividesByZero[h[m].text][k] =>
             \E j \in DOMAIN h[m].sent :
               /\ h[m].sent[j].kind = "div"
               /\ h[m].sent[j].text = DivisionError(StripSpaces(c[k]))

\* C2: by the end of a message's handling every candidate that is valid
\* and evaluable has had its own success-reply send attempt, one per
\* occurrence, whatever happened to the other candidates and sends.
SiblingsProcessed ==
  \A m \in Msgs :
    h[m].pc = "done" =>
      LET c == Candidates[h[m].text]
          calc == OfKind(h[m].sent, "calc")
      IN \A k \in DOMAIN c :
           Evaluable[h[m].text][k] =>
             Cardinality({ j \in DOMAIN calc : calc[j].expr = c[k] })
               = Cardinality({ i \in DOMAIN c : c[i] = c[k] })

\* a handled message with a rejected candidate, a failed send and a later
\* success reply
SiblingsProcessedWitness ==
  \E m \in Msgs :
    /\ h[m].pc = "done"
    /\ \E k \in DOMAIN Candidates[h[m].text] : ~Evaluable[h[m].text][k]
    /\ \E i, j \in DOMAIN h[m].sent :
         /\ i < j
         /\ h[m].sent[i].st = "failed"
         /\ h[m].sent[j].kind = "calc"
         /\ h[m].sent[j].st = "ok"

\* the replies as the handler makes them: original = expr.strip()
\* .replace(" ", "")
RepliesAsMade == Replies(StripSpaces)

\* the replies each validated expression of a text may get: none for one
\* whose evaluation or formatting raises
RepliesToValidated ==
  [t \in HandlerTexts |->
     [k \in DOMAIN Validated[t] |->
        IF Completes(Validated[t][k])
        THEN { Reply(StripSpaces(Validated[t][k]),
                     FormatResult(EvalOf(Validated[t][k]).v, up8, up6)) :
                 up8 \in BOOLEAN, up6 \in BOOLEAN }
        ELSE {}]]

\* C3: the replies of a message go out in the order in which the validated
\* expressions occur in the text, one reply per occurrence, and a send
\* starts only when every earlier send of the message has finished.
RepliesInOrder ==
  \A m \in Msgs :
    LET v == Validated[h[m].text]
        calc == OfKind(h[m].sent, "calc")
    IN /\ Len(calc) <= Len(v)
       /\ \A j \in DOMAIN calc :
            j <= Len(v) =>
              /\ calc[j].expr = v[j]
              /\ calc[j].text \in RepliesToValidated[h[m].text][j]
       /\ h[m].pc = "done" => Len(calc) = Len(v)
       /\ \A j \in DOMAIN h[m].sent :
            j < Len(h[m].sent) => h[m].sent[j].st # "pending"

\* 'what is 4+4 and also 10x2' answered: "4+4 = 8", then "10x2 = 20"
RepliesInOrderWitness ==
  \E m \in Msgs :
    /\ h[m].pc = "done"
    /\ Len(h[m].sent) = 2
    /\ h[m].sent[1].text = << "4", "+", "4", " ", "=", " ", "8" >>
    /\ h[m].sent[2].text =
         << "1", "0", "U+00D7", "2", " ", "=", " ", "2", "0" >>

\* C4: the reminder is sent for a message if and only if no expression of
\* it is validated and it came in a private chat or as a reply to the bot;
\* with none validated and neither flag nothing at all is sent.
ReminderIffEmptyAndFlag ==
  \A m \in Msgs :
    LET v == Validated[h[m].text]
        reminded == OfKind(h[m].sent, "reminder") # << >>
    IN /\ reminded => v = << >> /\ Flag(h[m])
       /\ h[m].pc \in {"rem_reply", "done"} /\ v = << >> /\ Flag(h[m])
            => reminded
       /\ v = << >> /\ ~Flag(h[m]) => h[m].sent = << >> /\ h[m].typing = 0

\* one message reminded as a reply to the bot in a group, another with
\* nothing validated handled without anything sent
ReminderIffEmptyAndFlagWitness ==
  \E m, n \in Msgs :
    /\ h[m].pc = "done" /\ h[n].pc = "done"
    /\ ~h[m].is_private /\ h[m].is_reply_to_bot
    /\ Len(h[m].sent) = 1
    /\ h[m].sent[1].kind = "reminder" /\ h[m].sent[1].st = "ok"
    /\ Candidates[h[n].text] # << >>
    /\ ~Flag(h[n])
    /\ h[n].sent = << >>

OtherTokens == {"name", "(", ")", "**", "//"}

HasOtherToken(s) ==
  LET ts == Tokens(ReplaceGlyphs(StripSpaces(s)), 1)
  IN \E i \in DOMAIN ts : ts[i].k \in OtherTokens

OnlyFourOperatorsAccepted ==
  fn.done /\ HasOtherToken(fn.arg) => fn.out = FALSE

\* C7: no candidate is a proper part of a longer run of digits, letters,
\* decimal points and operators: the run around a candidate holds no digit
\* and no letter outside the candidate.
RunChars == DigitChars \cup LetterChars \cup PatternOps \cup {"."}

RECURSIVE RunStart(_, _)
\* where the run of RunChars holding position i starts
RunStart(t, i) ==
  IF i > 1 /\ t[i - 1] \in RunChars THEN RunStart(t, i - 1) ELSE i

RECURSIVE RunEnd(_, _)
\* the position after the run of RunChars holding position i - 1
RunEnd(t, i) ==
  IF i <= Len(t) /\ t[i] \in RunChars THEN RunEnd(t, i + 1) ELSE i

CandidatesAreWholeTokens ==
  fn.done =>
    \A k \in DOMAIN fn.out :
      LET s == fn.out[k][1]
          e == fn.out[k][2]
          t == fn.arg
      IN \A i \in (RunStart(t, s)..(s - 1)) \cup (e..(RunEnd(t, e) - 1)) :
           t[i] \notin DigitChars \cup LetterChars

\* C8: a result is displayed as an integer if and only if it is a whole
\* number or lies within 1e-10 of one.
WithinEps(v) ==
  LET r == Abs(v.n) % v.d
      dist == IF r <= v.d - r THEN r ELSE v.d - r
  IN dist <= (v.d \div 100000) \div 100000

IntegerIffWithinEps ==
  fn.done => (fn.out.isInt <=> WithinEps(fn.arg))

\* C9: the displayed value is an integer without a decimal point or a
\* decimal that is not whole, with at most 6 digits after the point.
AtMostSixDecimalsNeverWhole ==
  fn.done =>
    \/ fn.out.isInt
    \/ fn.out.x.fr # 0 /\ fn.out.x.digs <= Places6

\* the candidate s with every whitespace character removed
WithoutWhitespace(s) == SelectSeq(s, LAMBDA c : c \notin SpaceChars)

\* the replies with all whitespace of the candidate removed
RepliesWithoutWhitespace == Replies(WithoutWhitespace)

\* C10: every success reply is the candidate with all its whitespace
\* removed and its glyphs kept, " = ", and the formatted result.
ReplyHasNoWhitespaceInCandidate ==
  \A m \in Msgs :
    LET calc == OfKind(h[m].sent, "calc")
    IN \A j \in DOMAIN calc :
         j <= Len(Answered[h[m].text]) =>
           calc[j].text \in RepliesWithoutWhitespace[h[m].text][j]

\* the string s with its spaces removed and its glyphs mapped to * and /
SpacesRemovedGlyphsMapped(s) == ReplaceGlyphs(RemoveChar(s, " "))

\* s is a minus sign before an expression that begins with a digit and is
\* accepted on its own
SignedWellFormed(s) ==
  /\ Len(s) >= 2
  /\ s[1] = "-"
  /\ s[2] \in DigitChars
  /\ is_valid_math_expression(Tail(s))

\* C11: is_valid_math_expression returns False for every string that, its
\* spaces removed and its glyphs mapped, ends with + - * / or begins with
\* * or /, and True for an otherwise well-formed expression with a leading
\* minus.
EdgeOperatorsRejectedSignAccepted ==
  fn.done =>
    LET c == SpacesRemovedGlyphsMapped(fn.arg)
    IN /\ c # << >> /\ c[Len(c)] \in {"+", "-", "*", "/"} => fn.out = FALSE
       /\ c # << >> /\ c[1] \in {"*", "/"} => fn.out = FALSE
       /\ SignedWellFormed(fn.arg) => fn.out = TRUE

\* "-1+1" accepted
EdgeOperatorsRejectedSignAcceptedWitness ==
  /\ fn.done
  /\ fn.arg = << "-", "1", "+", "1" >>
  /\ fn.out = TRUE

\* the number a formatted result holds: the int, or the float of the decimal
ValueOf(res) ==
  IF res.isInt THEN Rat(res.n, 1, FALSE)
  ELSE Rat((IF res.x.neg THEN -1 ELSE 1)
             * (res.x.ip * IntPow(10, res.x.digs) + res.x.fr),
           IntPow(10, res.x.digs), TRUE)

\* C12: formatting is idempotent: the formatting step applied to a
\* formatted value gives the display string it already had.
FormattingIdempotent ==
  fn.done =>
    \A up8 \in BOOLEAN, up6 \in BOOLEAN :
      ResultStr(FormatResult(ValueOf(fn.out), up8, up6)) = ResultStr(fn.out)

\* the texts of the sends s, in order
TextsOf(s) == [j \in DOMAIN s |-> s[j].text]

\* every send of the handler hm returned
AllSent(hm) == \A j \in DOMAIN hm.sent : hm.sent[j].st = "ok"

\* the reply sequences a message gets from its text and flag alone: the
\* reminder or nothing when no expression is validated, else one reply
\* for each validated expression that evaluates to a result
RepliesAlone(text, flag) ==
  IF Validated[text] = << >>
  THEN { IF flag THEN << ReminderText >> ELSE << >> }
  ELSE { r \in [DOMAIN Answered[text] ->
                  UNION { RepliesAsMade[text][k] : k \in DOMAIN Answered[text] }] :
           \A k \in DOMAIN Answered[text] : r[k] \in RepliesAsMade[text][k] }

ReturnsNumber ==
  [t \in HandlerTexts |->
     [k \in DOMAIN Validated[t] |-> EvalOf(Validated[t][k]).st = "ok"]]

\* C14: every validated expression is evaluated again in the reply loop
\* and succeeds: simple_eval returns a number for it, no division error is
\* sent, and a handled message has as many success-reply send attempts as
\* validated expressions.
ValidatedAreAnswered ==
  \A m \in Msgs :
    LET v == Validated[h[m].text]
    IN /\ \A k \in DOMAIN v : ReturnsNumber[h[m].text][k]
       /\ OfKind(h[m].sent, "div") = << >>
       /\ h[m].pc = "done" => Len(OfKind(h[m].sent, "calc")) = Len(v)

\* the handlers inside the semaphore block of safe_send_message
Inside == { m \in Msgs : h[m].pc \in {"typing", "sending"} }

\* C15: free permits and sends inside safe_send_message's semaphore block
\* add up to 20 in every state, whichever way the earlier sends left the
\* block; after a failed typing indicator the message is being sent; and
\* a send that failed has returned to its caller (None), whose loop goes
\* through all its expressions before it ends.
PermitsConserved ==
  /\ permits + Cardinality(Inside) = Permits
  /\ \A m \in Msgs :
       /\ h[m].typing_failed /\ h[m].pc # "rem_reply" =>
            /\ h[m].pc = "sending"
            /\ h[m].sent[Len(h[m].sent)].st = "pending"
       /\ \A j \in DOMAIN h[m].sent :
            h[m].sent[j].kind # "reminder" /\ h[m].sent[j].st = "failed" =>
              /\ j < Len(h[m].sent) \/ m \notin Inside
              /\ h[m].pc = "done" => h[m].i = Len(h[m].valid_matches)

\* a first send failed and its permit is back; the typing indicator of the
\* second send failed and its message is being sent
PermitsConservedWitness ==
  \E m \in Msgs :
    /\ h[m].pc = "sending"
    /\ h[m].typing_failed
    /\ Len(h[m].sent) = 2
    /\ h[m].sent[1].st = "failed"
    /\ permits = Permits - 1

\* the validator's checks of the last and the first character reject expr
EdgeChecksReject(expr) ==
  LET clean_expr == ReplaceGlyphs(StripSpaces(expr))
  IN clean_expr # << >>
     /\ \/ clean_expr[Len(clean_expr)] \in ValidatorOps
        \/ clean_expr[1] \in {"*", "/", "U+00D7", "U+00F7"}

\* the message "-5+3"
SignedMessage == << "-", "5", "+", "3" >>

\* the message "-5+3" has the one candidate "5+3", which is validated and
\* gets the reply "5+3 = 8"
SignedMessageAnswered ==
  /\ FindAll(SignedMessage) = << << "5", "+", "3" >> >>
  /\ ValidMatches(FindAll(SignedMessage)) = FindAll(SignedMessage)
  /\ \A up8 \in BOOLEAN, up6 \in BOOLEAN :
       Reply(StripSpaces(FindAll(SignedMessage)[1]),
             FormatResult(EvalOf(FindAll(SignedMessage)[1]).v, up8, up6))
         = << "5", "+", "3", " ", "=", " ", "8" >>

\* C16: every candidate the extractor returns begins and ends with a
\* digit, so the validator's checks of the first and the last character
\* never reject a candidate and a sign before a candidate is not part of
\* it; the message "-5+3" is answered "5+3 = 8".
CandidatesBeginAndEndWithDigit ==
  /\ fn.done =>
       \A k \in DOMAIN fn.out :
         LET c == SubSeq(fn.arg, fn.out[k][1], fn.out[k][2] - 1)
         IN /\ c # << >>
            /\ c[1] \in DigitChars
            /\ c[Len(c)] \in DigitChars
            /\ ~EdgeChecksReject(c)
  /\ SignedMessageAnswered

\* "-1+1": the one candidate is "1+1", after the sign
CandidatesBeginAndEndWithDigitWitness ==
  /\ fn.done
  /\ fn.arg = << "-", "1", "+", "1" >>
  /\ fn.out = << << 2, 5 >> >>
====
